---- MODULE Spec2Model ----
(***************************************************************************)
(* conda_build_all/artefact_destination.py: the destinations a built       *)
(* distribution is made available on.                                      *)
(*                                                                         *)
(* Python strings are sequences of one-character strings, so that          *)
(* str.split and the substring test "x in s" are computed, not assumed.    *)
(* Python's None is the string "None" for token and site, and 0 for the    *)
(* client handle self._cli.                                                *)
(***************************************************************************)
EXTENDS Integers, Sequences, FiniteSets, TLC

VARIABLES
    env_token,    \* os.environ.get("BINSTAR_TOKEN", None)
    ctor,         \* how the channel destination came to be: "none", "init",
                  \* "from_spec", or the exception from_spec raised
    last_spec,    \* the spec string given to from_spec
    dest,         \* the AnacondaClientChannelDest instance: token, owner,
                  \* channel, site, cli
    clients,      \* the clients get_binstar has returned, in order: the
                  \* Namespace(token, site) each was made from
    with_owner,   \* remote: the owners that hold the distribution
    on_channel,   \* remote: the <<owner, channel>> the distribution is on
    last,         \* the last AnacondaClientChannelDest.make_available call:
                  \* arguments, the remote it found, what the queries
                  \* answered, the calls it made (in order), what it raised
    n_upload,     \* build.upload calls made so far
    n_link,       \* inspect_binstar.add_distribution_to_channel calls so far
    n_calls,      \* make_available calls made so far
    n_raised,     \* make_available calls that raised
    fs,           \* the local filesystem: path -> [kind, data]
    ddir,         \* DirectoryDestination.directory
    dctor,        \* outcome of DirectoryDestination.__init__
    dlast,        \* the last DirectoryDestination call and the filesystem
                  \* it found
    passed,       \* the <<built_dist_path, just_built>> given so far to
                  \* DirectoryDestination.make_available
    copied,       \* the paths shutil.copy was called on so far
    n_dcalls      \* DirectoryDestination.make_available calls made so far

vars == <<env_token, ctor, last_spec, dest, clients, with_owner, on_channel,
          last, n_upload, n_link, n_calls, n_raised, fs, ddir, dctor, dlast,
          passed, copied, n_dcalls>>

chanVars == <<env_token, ctor, last_spec, dest, clients, with_owner,
              on_channel, last, n_upload, n_link, n_calls, n_raised>>

dirVars == <<fs, ddir, dctor, dlast, passed, copied, n_dcalls>>

----------------------------------------------------------------------------
(* Bounds *)

\* longest spec string given to from_spec
MaxSpecLen == 3

\* most make_available calls made on one channel destination
MaxCalls == 3

\* most make_available calls made on one directory destination
MaxDirCalls == 2

----------------------------------------------------------------------------
(* Strings *)

Chars == {"a", "t", "/"}

RECURSIVE StringsOfLen(_)
StringsOfLen(n) ==
    IF n = 0 THEN {<< >>}
    ELSE {Append(s, c) : s \in StringsOfLen(n - 1), c \in Chars}

SpecStrings == UNION {StringsOfLen(n) : n \in 0..MaxSpecLen}

Slash == "/"

Main == <<"m", "a", "i", "n">>

Http == <<"h", "t", "t", "p", ":", "/", "/">>

Https == <<"h", "t", "t", "p", "s", ":", "/", "/">>

\* Python's "sub in s" on strings
In(sub, s) ==
    \E i \in 1..(Len(s) - Len(sub) + 1) : SubSeq(s, i, i + Len(sub) - 1) = sub

\* Python's s.split('/'): the pieces between the separators, empty ones kept
RECURSIVE split(_)
split(s) ==
    IF ~ \E i \in 1..Len(s) : s[i] = Slash THEN <<s>>
    ELSE LET i == CHOOSE k \in 1..Len(s) :
                      s[k] = Slash /\ \A j \in 1..(k - 1) : s[j] # Slash
         IN  <<SubSeq(s, 1, i - 1)>> \o split(SubSeq(s, i + 1, Len(s)))

----------------------------------------------------------------------------
(* The inputs *)

Tokens == {"None", "tok"}

Sites == {"None", "site"}

Owners == {<<"a">>, <<"t">>}

Channels == {Main, <<"t">>}

\* the owners that may hold the distribution before the first call
RemoteOwners == {<<"a">>}

HttpUrl == Http \o <<"x">>

HttpsUrl == Https \o <<"x">>

LocalPath == <<"/", "b", "/", "x">>

\* a local path with a URL inside it
EmbeddedUrl == <<"/", "b", "/">> \o Http \o <<"x">>

\* one slash short of a URL
AlmostUrl == <<"h", "t", "t", "p", ":", "/", "x">>

DistPaths == {HttpUrl, HttpsUrl, LocalPath, EmbeddedUrl, AlmostUrl}

\* the spec strings given to from_spec before make_available is called
SpecExamples == {<<"a">>, <<"a", "/", "t">>, <<"a", "/", "/", "t">>}

----------------------------------------------------------------------------
(* The remote, as inspect_binstar and build see it.  One distribution (the *)
(* meta every call is about) is followed.                                  *)

Call(op, cli, owner, channels) ==
    [op |-> op, cli |-> cli, owner |-> owner, channels |-> channels]

\* inspect_binstar.distribution_exists(cli, owner, meta)
distribution_exists(owners, owner) == owner \in owners

\* inspect_binstar.distribution_exists_on_channel(cli, owner, meta, channel)
distribution_exists_on_channel(placed, owner, channel) ==
    <<owner, channel>> \in placed

\* what one call made on the remote leaves in with_owner
OwnersAfter(owners, c) ==
    IF c.op = "upload" THEN owners \cup {c.owner} ELSE owners

\* what one call made on the remote leaves in on_channel:
\* build.upload(cli, meta, owner, channels) puts the distribution on each
\* channel of the list, add_distribution_to_channel on the one given
PlacedAfter(placed, c) ==
    IF c.op \in {"upload", "add_distribution_to_channel"}
    THEN placed \cup {<<c.owner, c.channels[i]>> : i \in 1..Len(c.channels)}
    ELSE placed

RECURSIVE OwnersAfterAll(_, _)
OwnersAfterAll(owners, cs) ==
    IF cs = << >> THEN owners
    ELSE OwnersAfterAll(OwnersAfter(owners, Head(cs)), Tail(cs))

RECURSIVE PlacedAfterAll(_, _)
PlacedAfterAll(placed, cs) ==
    IF cs = << >> THEN placed
    ELSE PlacedAfterAll(PlacedAfter(placed, Head(cs)), Tail(cs))

CountOp(cs, op) == Cardinality({i \in 1..Len(cs) : cs[i].op = op})

----------------------------------------------------------------------------
(* AnacondaClientChannelDest *)

NoDest ==
    [token |-> "None", owner |-> << >>, channel |-> << >>,
     site |-> "None", cli |-> 0]

NoCall ==
    [path |-> << >>, just_built |-> FALSE, owners_before |-> {},
     placed_before |-> {}, already_on_channel |-> FALSE,
     already_with_owner |-> FALSE, calls |-> << >>, raised |-> "None"]

\* __init__(self, token, owner, channel, site=None)
ChannelDest(token, owner, channel, site) ==
    [token |-> token, owner |-> owner, channel |-> channel,
     site |-> site, cli |-> 0]

\* from_spec(cls, spec, site=None), with token the BINSTAR_TOKEN of the
\* environment.  "owner, _, channel = spec.split('/')" binds three names:
\* any other number of pieces is a ValueError.
from_spec(token, spec, site) ==
    IF In(<<Slash>>, spec)
    THEN LET parts == split(spec)
         IN  IF Len(parts) = 3
             THEN [raised |-> "None",
                   dest |-> ChannelDest(token, parts[1], parts[3], site)]
             ELSE [raised |-> "ValueError", dest |-> NoDest]
    ELSE [raised |-> "None", dest |-> ChannelDest(token, spec, Main, site)]

\* a destination that asks for a new client on every call
needs_client_always(cli) == TRUE

\* "if self._cli is None": whether make_available asks get_binstar for a
\* client
needs_client(cli) == cli = 0

\* the chain with the owner asked about before the channel
make_available_owner_first(self, already_on_channel, already_with_owner, just_built, built_dist_path) ==
    IF already_with_owner
    THEN [calls |-> <<Call("add_distribution_to_channel", self.cli, self.owner,
                      <<self.channel>>)>>,
          raised |-> "None"]
    ELSE IF already_on_channel
    THEN [calls |-> << >>, raised |-> "None"]
    ELSE IF just_built
    THEN [calls |-> <<Call("upload", self.cli, self.owner,
                      <<self.channel>>)>>,
          raised |-> "None"]
    ELSE IF In(Http, built_dist_path) \/ In(Https, built_dist_path)
    THEN [calls |-> << >>, raised |-> "NotImplementedError"]
    ELSE [calls |-> << >>, raised |-> "None"]

\* the chain without its second branch (on the channel and just built)
make_available_no_second_branch(self, already_on_channel, already_with_owner, just_built, built_dist_path) ==
    IF already_on_channel /\ ~just_built
    THEN [calls |-> << >>, raised |-> "None"]
    ELSE IF already_with_owner
    THEN [calls |-> <<Call("add_distribution_to_channel", self.cli, self.owner,
                      <<self.channel>>)>>,
          raised |-> "None"]
    ELSE IF just_built
    THEN [calls |-> <<Call("upload", self.cli, self.owner,
                      <<self.channel>>)>>,
          raised |-> "None"]
    ELSE IF In(Http, built_dist_path) \/ In(Https, built_dist_path)
    THEN [calls |-> << >>, raised |-> "NotImplementedError"]
    ELSE [calls |-> << >>, raised |-> "None"]

\* the chain with just_built asked about before the owner
make_available_built_before_owner(self, already_on_channel, already_with_owner, just_built, built_dist_path) ==
    IF already_on_channel
    THEN [calls |-> << >>, raised |-> "None"]
    ELSE IF just_built
    THEN [calls |-> <<Call("upload", self.cli, self.owner,
                      <<self.channel>>)>>,
          raised |-> "None"]
    ELSE IF already_with_owner
    THEN [calls |-> <<Call("add_distribution_to_channel", self.cli, self.owner,
                      <<self.channel>>)>>,
          raised |-> "None"]
    ELSE IF In(Http, built_dist_path) \/ In(Https, built_dist_path)
    THEN [calls |-> << >>, raised |-> "NotImplementedError"]
    ELSE [calls |-> << >>, raised |-> "None"]

\* the chain with the upload left on upload's default channel
make_available_default_channel(self, already_on_channel, already_with_owner, just_built, built_dist_path) ==
    IF already_on_channel
    THEN [calls |-> << >>, raised |-> "None"]
    ELSE IF already_with_owner
    THEN [calls |-> <<Call("add_distribution_to_channel", self.cli, self.owner,
                      <<self.channel>>)>>,
          raised |-> "None"]
    ELSE IF just_built
    THEN [calls |-> <<Call("upload", self.cli, self.owner, <<Main>>)>>,
          raised |-> "None"]
    ELSE IF In(Http, built_dist_path) \/ In(Https, built_dist_path)
    THEN [calls |-> << >>, raised |-> "NotImplementedError"]
    ELSE [calls |-> << >>, raised |-> "None"]

\* the chain with only "http://" looked for in the path
make_available_http_only(self, already_on_channel, already_with_owner, just_built, built_dist_path) ==
    IF already_on_channel
    THEN [calls |-> << >>, raised |-> "None"]
    ELSE IF already_with_owner
    THEN [calls |-> <<Call("add_distribution_to_channel", self.cli, self.owner,
                      <<self.channel>>)>>,
          raised |-> "None"]
    ELSE IF just_built
    THEN [calls |-> <<Call("upload", self.cli, self.owner,
                      <<self.channel>>)>>,
          raised |-> "None"]
    ELSE IF In(Http, built_dist_path)
    THEN [calls |-> << >>, raised |-> "NotImplementedError"]
    ELSE [calls |-> << >>, raised |-> "None"]

\* The if/elif chain of make_available, after the two queries: the calls it
\* makes on the remote and what it raises.
make_available(self, already_on_channel, already_with_owner, just_built, built_dist_path) ==
    IF already_on_channel /\ ~just_built
    THEN [calls |-> << >>, raised |-> "None"]
    ELSE IF already_on_channel /\ just_built
    THEN [calls |-> << >>, raised |-> "None"]
    ELSE IF already_with_owner
    THEN [calls |-> <<Call("add_distribution_to_channel", self.cli, self.owner,
                      <<self.channel>>)>>,
          raised |-> "None"]
    ELSE IF just_built
    THEN [calls |-> <<Call("upload", self.cli, self.owner,
                      <<self.channel>>)>>,
          raised |-> "None"]
    ELSE IF ~just_built
    THEN IF In(Http, built_dist_path) \/ In(Https, built_dist_path)
         THEN [calls |-> << >>, raised |-> "NotImplementedError"]
         ELSE [calls |-> << >>, raised |-> "None"]
    ELSE [calls |-> << >>, raised |-> "None"]

Construct(token, owner, channel, site) ==
    /\ ctor = "none"
    /\ ctor' = "init"
    /\ dest' = ChannelDest(token, owner, channel, site)
    /\ UNCHANGED <<env_token, last_spec, clients, with_owner, on_channel,
                   last, n_upload, n_link, n_calls, n_raised>>
    /\ UNCHANGED dirVars

FromSpec(spec, site) ==
    /\ ctor = "none"
    /\ LET r == from_spec(env_token, spec, site)
       IN  /\ ctor' = IF r.raised = "None" THEN "from_spec" ELSE r.raised
           /\ dest' = r.dest
    /\ last_spec' = spec
    /\ UNCHANGED <<env_token, clients, with_owner, on_channel, last,
                   n_upload, n_link, n_calls, n_raised>>
    /\ UNCHANGED dirVars

MakeAvailable(built_dist_path, just_built) ==
    /\ ctor \in {"init", "from_spec"}
    /\ n_calls < MaxCalls
    /\ LET create == needs_client(dest.cli)
           made == IF create
                   THEN Append(clients,
                               [token |-> dest.token, site |-> dest.site])
                   ELSE clients
           cli == IF create THEN Len(made) ELSE dest.cli
           own == distribution_exists(with_owner, dest.owner)
           onc == distribution_exists_on_channel(on_channel, dest.owner,
                                                 dest.channel)
           self == [dest EXCEPT !.cli = cli]
           out == make_available(self, onc, own, just_built, built_dist_path)
           asked == (IF create
                     THEN <<Call("get_binstar", cli, << >>, << >>)>>
                     ELSE << >>)
                    \o <<Call("distribution_exists", cli, dest.owner, << >>),
                         Call("distribution_exists_on_channel", cli,
                              dest.owner, <<dest.channel>>)>>
       IN  /\ clients' = made
           /\ dest' = self
           /\ with_owner' = OwnersAfterAll(with_owner, out.calls)
           /\ on_channel' = PlacedAfterAll(on_channel, out.calls)
           /\ last' = [path |-> built_dist_path, just_built |-> just_built,
                       owners_before |-> with_owner,
                       placed_before |-> on_channel,
                       already_on_channel |-> onc,
                       already_with_owner |-> own,
                       calls |-> asked \o out.calls,
                       raised |-> out.raised]
           /\ n_upload' = n_upload + CountOp(out.calls, "upload")
           /\ n_link' = n_link
                          + CountOp(out.calls, "add_distribution_to_channel")
           /\ n_raised' = n_raised + (IF out.raised = "None" THEN 0 ELSE 1)
    /\ n_calls' = n_calls + 1
    /\ UNCHANGED <<env_token, ctor, last_spec>>
    /\ UNCHANGED dirVars

----------------------------------------------------------------------------
(* The local filesystem *)

Home == <<"/", "h">>

Cwd == <<"/", "w">>

BuildDir == <<"/", "b">>

\* os.path.join(d, name)
join(d, name) ==
    IF d # << >> /\ d[Len(d)] = Slash THEN d \o name ELSE d \o <<Slash>> \o name

\* os.path.basename(p): what follows the last separator
basename(p) ==
    IF ~ In(<<Slash>>, p) THEN p
    ELSE LET i == CHOOSE k \in 1..Len(p) :
                      p[k] = Slash /\ \A j \in (k + 1)..Len(p) : p[j] # Slash
         IN  SubSeq(p, i + 1, Len(p))

\* os.path.expanduser(p): a leading "~" alone or before a separator is the
\* home directory
expanduser(p) ==
    IF p # << >> /\ p[1] = "~" /\ (Len(p) = 1 \/ p[2] = Slash)
    THEN Home \o SubSeq(p, 2, Len(p))
    ELSE p

\* os.path.abspath(p): a relative path is taken from the working directory
\* (the paths used hold no ".", ".." or doubled separator to normalise)
abspath(p) ==
    IF p # << >> /\ p[1] = Slash THEN p ELSE join(Cwd, p)

\* the directory arguments given to DirectoryDestination
DirArgs == {<<"o">>, <<"~", "/", "o">>, <<"/", "o">>, BuildDir}

Names == {<<"x">>, <<"y">>}

DestDirs == {join(Cwd, <<"o">>), join(Home, <<"o">>), <<"/", "o">>, BuildDir}

FsPaths == {Home, Cwd} \cup DestDirs \cup {join(d, n) : d \in DestDirs, n \in Names}

Absent == [kind |-> "absent", data |-> ""]

Dir == [kind |-> "dir", data |-> ""]

File(data) == [kind |-> "file", data |-> data]

\* the just-built distributions
Artefacts == {join(BuildDir, n) : n \in Names}

\* p is d or an ancestor directory of d
IsPrefix(p, d) ==
    \/ p = d
    \/ Len(p) < Len(d) /\ SubSeq(d, 1, Len(p)) = p /\ d[Len(p) + 1] = Slash

\* os.path.exists(p)
exists(files, p) == files[p].kind # "absent"

\* os.path.isdir(p)
isdir(files, p) == files[p].kind = "dir"

\* os.makedirs(d): d and every missing directory above it
makedirs(files, d) ==
    [p \in DOMAIN files |->
        IF IsPrefix(p, d) /\ files[p].kind = "absent" THEN Dir ELSE files[p]]

\* the names of the entries of directory d
Listing(files, d) ==
    {n \in Names : files[join(d, n)].kind # "absent"}

----------------------------------------------------------------------------
(* DirectoryDestination *)

NoDir == << >>

NoDirCall ==
    [op |-> "none", arg |-> << >>, just_built |-> FALSE, before |-> << >>,
     raised |-> "None"]

\* a constructor that does not look at what the path is
DirectoryDestination_unchecked(files, directory) ==
    LET d == abspath(expanduser(directory))
        made == IF ~ exists(files, d) THEN makedirs(files, d) ELSE files
    IN  [fs |-> made, directory |-> d, raised |-> "None"]

\* __init__(self, directory): the filesystem it leaves, self.directory and
\* what it raises
DirectoryDestination(files, directory) ==
    LET d == abspath(expanduser(directory))
        made == IF ~ exists(files, d) THEN makedirs(files, d) ELSE files
    IN  IF ~ isdir(made, d)
        THEN [fs |-> made, directory |-> d, raised |-> "IOError"]
        ELSE [fs |-> made, directory |-> d, raised |-> "None"]

\* shutil.copy(src, dst) with dst a directory: the file is written as
\* dst/basename(src); copying a file onto itself raises shutil.Error
\* (SameFileError) and writes nothing
copy(files, src, dst) ==
    LET target == join(dst, basename(src))
    IN  IF target = src
        THEN [fs |-> files, raised |-> "Error"]
        ELSE [fs |-> [files EXCEPT ![target] = File(files[src].data)],
              raised |-> "None"]

\* a make_available that copies whatever file it is given
dir_make_available_any(files, directory, built_dist_path, just_built) ==
    IF just_built \/ (built_dist_path \in DOMAIN files
                        /\ exists(files, built_dist_path))
    THEN LET r == copy(files, built_dist_path, directory)
         IN  [fs |-> r.fs, raised |-> r.raised, copied |-> {built_dist_path}]
    ELSE [fs |-> files, raised |-> "None", copied |-> {}]

\* make_available(self, meta, built_dist_path, just_built)
dir_make_available(files, directory, built_dist_path, just_built) ==
    IF just_built
    THEN LET r == copy(files, built_dist_path, directory)
         IN  [fs |-> r.fs, raised |-> r.raised, copied |-> {built_dist_path}]
    ELSE [fs |-> files, raised |-> "None", copied |-> {}]

DirConstruct(directory) ==
    /\ dctor = "none"
    /\ LET r == DirectoryDestination(fs, directory)
       IN  /\ fs' = r.fs
           /\ ddir' = r.directory
           /\ dctor' = IF r.raised = "None" THEN "ok" ELSE r.raised
           /\ dlast' = [op |-> "init", arg |-> directory,
                        just_built |-> FALSE, before |-> fs,
                        raised |-> r.raised]
    /\ UNCHANGED <<passed, copied, n_dcalls>>
    /\ UNCHANGED chanVars

\* a just-built distribution is a file that exists; one that was already
\* available may be anywhere
DirMakeAvailable(built_dist_path, just_built) ==
    /\ dctor = "ok"
    /\ n_dcalls < MaxDirCalls
    /\ just_built =>
           /\ built_dist_path \in DOMAIN fs
           /\ fs[built_dist_path].kind = "file"
    /\ LET r == dir_make_available(fs, ddir, built_dist_path, just_built)
       IN  /\ fs' = r.fs
           /\ copied' = copied \cup r.copied
           /\ dlast' = [op |-> "make_available", arg |-> built_dist_path,
                        just_built |-> just_built, before |-> fs,
                        raised |-> r.raised]
    /\ passed' = passed \cup {<<built_dist_path, just_built>>}
    /\ n_dcalls' = n_dcalls + 1
    /\ UNCHANGED <<ddir, dctor>>
    /\ UNCHANGED chanVars

----------------------------------------------------------------------------
(* Specifications *)

InitChannelIdle ==
    /\ env_token = "None"
    /\ ctor = "none"
    /\ last_spec = << >>
    /\ dest = NoDest
    /\ clients = << >>
    /\ with_owner = {}
    /\ on_channel = {}
    /\ last = NoCall
    /\ n_upload = 0
    /\ n_link = 0
    /\ n_calls = 0
    /\ n_raised = 0

InitDirIdle ==
    /\ fs = [p \in FsPaths |-> Absent]
    /\ ddir = NoDir
    /\ dctor = "none"
    /\ dlast = NoDirCall
    /\ passed = {}
    /\ copied = {}
    /\ n_dcalls = 0

InitChannel ==
    /\ env_token \in Tokens
    /\ ctor = "none"
    /\ last_spec = << >>
    /\ dest = NoDest
    /\ clients = << >>
    /\ with_owner \in SUBSET RemoteOwners
    /\ on_channel \in SUBSET (RemoteOwners \X Channels)
    /\ last = NoCall
    /\ n_upload = 0
    /\ n_link = 0
    /\ n_calls = 0
    /\ n_raised = 0

\* what a path a destination may name is before the destination is made:
\* absent, a plain file, or a directory holding some old distributions
PathStates ==
    {[kind |-> "absent", names |-> {}], [kind |-> "file", names |-> {}]}
        \cup {[kind |-> "dir", names |-> ns] : ns \in SUBSET Names}

\* the filesystem in which each destination path is as st says; the home
\* directory exists unless home_absent, the working directory and the build
\* directory with its just-built distributions always do
FsOf(st, home_absent) ==
    [p \in FsPaths |->
        IF p = Cwd \/ p = BuildDir THEN Dir
        ELSE IF p = Home THEN (IF home_absent THEN Absent ELSE Dir)
        ELSE IF p \in Artefacts THEN File("new")
        ELSE IF p \in DOMAIN st
             THEN (IF st[p].kind = "dir" THEN Dir
                   ELSE IF st[p].kind = "file" THEN File("old")
                   ELSE Absent)
        ELSE LET d == CHOOSE q \in DOMAIN st : IsPrefix(q, p)
             IN  IF basename(p) \in st[d].names THEN File("old") ELSE Absent]

InitDir ==
    /\ \E st \in [DestDirs \ {BuildDir} -> PathStates] :
       \E home_absent \in BOOLEAN :
           /\ home_absent => st[join(Home, <<"o">>)].kind = "absent"
           /\ fs = FsOf(st, home_absent)
    /\ ddir = NoDir
    /\ dctor = "none"
    /\ dlast = NoDirCall
    /\ passed = {}
    /\ copied = {}
    /\ n_dcalls = 0

\* the channel destination
Init == InitChannel /\ InitDirIdle

Next ==
    \/ \E t \in Tokens, o \in Owners, c \in Channels, s \in Sites :
           Construct(t, o, c, s)
    \/ \E sp \in SpecExamples, s \in Sites : FromSpec(sp, s)
    \/ \E p \in DistPaths, jb \in BOOLEAN : MakeAvailable(p, jb)

Spec == Init /\ [][Next]_vars

\* from_spec alone, on every spec string up to MaxSpecLen
NextFromSpec == \E sp \in SpecStrings, s \in Sites : FromSpec(sp, s)

SpecFromSpec == Init /\ [][NextFromSpec]_vars

\* the directory destination
DirPaths == Artefacts \cup {HttpUrl}

NextDir ==
    \/ \E d \in DirArgs : DirConstruct(d)
    \/ \E p \in DirPaths, jb \in BOOLEAN : DirMakeAvailable(p, jb)

InitDirectory == InitChannelIdle /\ InitDir

SpecDir == InitDirectory /\ [][NextDir]_vars

----------------------------------------------------------------------------
(* The claims *)

IsChange(c) == c.op \in {"upload", "add_distribution_to_channel"}

\* the uploads and links of a call, in order
Changes(cs) == SelectSeq(cs, IsChange)

Called == n_calls > 0

Target == <<dest.owner, dest.channel>>

\* C1: a make_available call made while the distribution is already on the
\* destination's owner/channel uploads nothing and links nothing, and over
\* any sequence of calls on one destination the distribution is uploaded at
\* most once and linked onto the channel at most once.
C1_Idempotent ==
    /\ (Called /\ Target \in last.placed_before) => Changes(last.calls) = << >>
    /\ n_upload <= 1
    /\ n_link <= 1

\* a later call found the distribution where an earlier call had put it
C1_Witness ==
    /\ n_calls >= 2
    /\ n_upload + n_link = 1
    /\ Target \in last.placed_before
    /\ last.just_built

\* C2: when the distribution is on the destination's channel at call time,
\* make_available uploads nothing, links nothing and does not raise,
\* whatever just_built is and whatever the owner query answers.
C2_OnChannelNoOp ==
    (Called /\ last.already_on_channel)
        => /\ Changes(last.calls) = << >>
           /\ last.raised = "None"
           /\ on_channel = last.placed_before
           /\ with_owner = last.owners_before

\* on the channel, owned and just built: the case in which a later branch
\* would act if the first two did not come first
C2_Witness ==
    /\ Called
    /\ last.already_on_channel
    /\ last.already_with_owner
    /\ last.just_built

\* C4: when the distribution is not on the channel but the owner holds it,
\* make_available makes exactly one link call, for the destination's owner
\* and channel, makes no upload call and does not raise, whatever just_built
\* is.
C4_OwnedIsLinked ==
    (Called /\ ~last.already_on_channel /\ last.already_with_owner)
        => /\ Changes(last.calls)
                = <<Call("add_distribution_to_channel", dest.cli,
                         dest.owner, <<dest.channel>>)>>
           /\ last.raised = "None"

C4_Witness ==
    /\ Called
    /\ ~last.already_on_channel
    /\ last.already_with_owner
    /\ last.just_built
    /\ n_link = 1

\* C5: when the distribution is neither on the channel nor held by the owner
\* and just_built is true, make_available makes exactly one upload call, for
\* the destination's owner and the channel list [channel], makes no link
\* call and does not raise.
C5_BuiltIsUploaded ==
    (Called /\ ~last.already_on_channel /\ ~last.already_with_owner
            /\ last.just_built)
        => /\ Changes(last.calls)
                = <<Call("upload", dest.cli, dest.owner, <<dest.channel>>)>>
           /\ last.raised = "None"

\* an upload to a channel that is not upload's default
C5_Witness ==
    /\ Called
    /\ ~last.already_on_channel
    /\ ~last.already_with_owner
    /\ last.just_built
    /\ dest.channel # Main
    /\ n_upload = 1

\* the paths that hold "http://" or "https://"
UrlPaths == {HttpUrl, HttpsUrl, EmbeddedUrl}

\* C6: when the distribution is neither on the channel nor held by the owner
\* and just_built is false, make_available uploads nothing and links
\* nothing, and raises NotImplementedError exactly when the path holds
\* "http://" or "https://"; no other case of the table raises.
C6_RaisesOnlyForRemoteCopy ==
    /\ (Called /\ ~last.already_on_channel /\ ~last.already_with_owner
               /\ ~last.just_built)
           => /\ Changes(last.calls) = << >>
              /\ last.raised = IF last.path \in UrlPaths
                               THEN "NotImplementedError" ELSE "None"
    /\ (Called /\ last.raised # "None")
           => /\ ~last.already_on_channel
              /\ ~last.already_with_owner
              /\ ~last.just_built

\* the call raised on an https URL
C6_Witness ==
    /\ Called
    /\ last.path = HttpsUrl
    /\ last.raised = "NotImplementedError"

\* the call returned normally on a path that is no URL
C6_WitnessLocal ==
    /\ Called
    /\ ~last.already_on_channel
    /\ ~last.already_with_owner
    /\ ~last.just_built
    /\ last.path = AlmostUrl
    /\ last.raised = "None"

\* C7: whenever make_available returns without raising, the distribution is
\* on the destination's owner/channel afterwards.
C7_OnDestinationAfterReturn ==
    (Called /\ last.raised = "None") => Target \in on_channel

\* C10: constructing the destination creates no client; the first
\* make_available call creates one from the destination's token and site
\* before it asks the remote anything; no later call creates another, and
\* every query, link and upload is made with that one client, also after a
\* call that raised.
C10_LazyCachedClient ==
    /\ (ctor \in {"init", "from_spec"} /\ ~Called)
           => dest.cli = 0 /\ clients = << >>
    /\ Called
           => /\ clients = <<[token |-> dest.token, site |-> dest.site]>>
              /\ dest.cli = 1
              /\ \A i \in 1..Len(last.calls) : last.calls[i].cli = 1
              /\ CountOp(last.calls, "get_binstar")
                    = IF n_calls = 1 THEN 1 ELSE 0
              /\ n_calls = 1 => last.calls[1].op = "get_binstar"

\* an upload made after an earlier call had raised
C10_Witness ==
    /\ n_calls >= 2
    /\ n_raised >= 1
    /\ last.raised = "None"
    /\ n_upload = 1
    /\ Changes(last.calls) # << >>

NoSlash(s) == \A i \in 1..Len(s) : s[i] # Slash

\* C3: from_spec does not fail on "owner/channel" nor on "owner": a spec
\* made of a non-empty owner, one '/' and a non-empty channel gives that
\* owner and that channel, a spec without '/' gives the whole string as
\* owner and the channel "main".
C3_FromSpecParses ==
    ctor \in {"from_spec", "ValueError"}
        => /\ \A o \in SpecStrings, c \in SpecStrings :
                  (/\ o # << >> /\ NoSlash(o)
                   /\ c # << >> /\ NoSlash(c)
                   /\ last_spec = o \o <<Slash>> \o c)
                      => /\ ctor = "from_spec"
                         /\ dest.owner = o
                         /\ dest.channel = c
           /\ NoSlash(last_spec)
                  => /\ ctor = "from_spec"
                     /\ dest.owner = last_spec
                     /\ dest.channel = Main

\* the file name of a just-built distribution
NameOf(p) == CHOOSE n \in Names : p = BuildDir \o <<Slash>> \o n

\* the entries of directory d called n
Entries(files, d, n) ==
    {p \in DOMAIN files :
        /\ files[p].kind # "absent"
        /\ p = d \o <<Slash>> \o n}

\* C8: DirectoryDestination.make_available leaves in the destination
\* directory what was there plus the artefact's file when just_built is
\* true, and leaves it as it was (nothing is copied) when just_built is
\* false; after any sequence of calls a just-built artefact is there exactly
\* once and a path given only with just_built false was never copied.
C8_CopiesOnlyJustBuilt ==
    /\ dlast.op = "make_available"
           => /\ Listing(fs, ddir)
                   = Listing(dlast.before, ddir)
                       \cup (IF dlast.just_built THEN {NameOf(dlast.arg)}
                             ELSE {})
              /\ ~dlast.just_built => fs = dlast.before
    /\ \A pj \in passed :
           pj[2] => Cardinality(Entries(fs, ddir, NameOf(pj[1]))) = 1
    /\ \A p \in copied : <<p, TRUE>> \in passed

\* a distribution was copied into a directory that did not hold it, and one
\* given with just_built false was left where it was
C8_Witness ==
    /\ dlast.op = "make_available"
    /\ ~dlast.just_built
    /\ dlast.arg \in Artefacts
    /\ copied # {}
    /\ Listing(fs, ddir) = {NameOf(p) : p \in copied}
    /\ NameOf(dlast.arg) \notin Listing(fs, ddir)

\* the path each directory argument resolves to
Resolved(directory) ==
    CASE directory = <<"o">> -> <<"/", "w", "/", "o">>
      [] directory = <<"~", "/", "o">> -> <<"/", "h", "/", "o">>
      [] directory = <<"/", "o">> -> <<"/", "o">>
      [] directory = <<"/", "b">> -> <<"/", "b">>

\* C9: constructing a DirectoryDestination on a path that is a plain file
\* raises IOError and leaves the filesystem as it was; on an absent path it
\* creates the directory; on a directory it changes nothing; so a
\* constructed DirectoryDestination names a path that is a directory.
C9_DirectoryOrRaise ==
    /\ dlast.op = "init"
           => LET d == Resolved(dlast.arg)
                  was == dlast.before[d].kind
              IN  /\ was = "file" => dctor = "IOError" /\ fs = dlast.before
                  /\ was = "absent" => dctor = "ok" /\ fs[d].kind = "dir"
                  /\ was = "dir" => dctor = "ok" /\ fs = dlast.before
                  /\ \A p \in DOMAIN fs :
                         ~IsPrefix(p, d) => fs[p] = dlast.before[p]
    /\ dctor = "ok" => ddir \in DOMAIN fs /\ fs[ddir].kind = "dir"

\* the constructor refused a plain file
C9_Witness ==
    /\ dlast.op = "init"
    /\ dlast.before[Resolved(dlast.arg)].kind = "file"
    /\ dctor = "IOError"

\* the constructor made the directory and the home directory above it
C9_WitnessCreated ==
    /\ dlast.op = "init"
    /\ dlast.before[Home].kind = "absent"
    /\ dctor = "ok"
    /\ ddir = <<"/", "h", "/", "o">>
    /\ fs[Home].kind = "dir"

====
